---- MODULE Spec2Model ----
(***************************************************************************)
(* The offline-first POI synchronisation engine of GeoTracker: the hook    *)
(* usePOIStorage (src/hooks/usePOIStorage.ts), its two AsyncStorage blobs, *)
(* the remote POI service it calls through poiService, and the MapScreen   *)
(* handler through which a new POI is added.                               *)
(*                                                                         *)
(* Every async function of the hook is a task; a task takes one step per   *)
(* stretch of code between two awaits, so the steps of overlapping calls   *)
(* interleave exactly where the JavaScript event loop lets them.  A value  *)
(* a function closes over (pois, syncInProgress) is fixed when the call    *)
(* starts, as in a React render.                                           *)
(***************************************************************************)
EXTENDS Integers, Sequences, FiniteSets, TLC

\* Bounds of the model.
MaxCalls == 4       \* calls of addPOI, updatePOI, deletePOI, syncWithServer; restarts
MaxOverlaps == 1    \* calls started while another call is still in flight
MaxFaults == 1      \* failures of the storage, where a specification lets it fail
MaxServerId == 3    \* the last id the service gives out before the user stops syncing again

VARIABLES
    pois,            \* useState<POI[]>: the in-memory snapshot
    isLoading,       \* useState(true)
    isOnline,        \* useState(true)
    syncInProgress,  \* useState(false)
    storedPois,      \* AsyncStorage item '@GeoTracker:pois'
    storedQueue,     \* AsyncStorage item '@GeoTracker:syncQueue'
    remote,          \* the records held by the remote POI service
    nextServerId,    \* the next id the remote service assigns
    nextUUID,        \* the number of Crypto.randomUUID() values drawn
    clock,           \* the number of queue items stamped (new Date())
    tasks,           \* the async calls in flight; task 0 is the startup effect
    last,            \* history: the call that returned in the latest step
    cleared,         \* history: the stamp of the last item removed with the queue
    nCalls,          \* calls of the hook's functions made so far
    nOverlaps,       \* calls started while another call was in flight
    faults,          \* the failures AsyncStorage still has in store
    link             \* the network: "flaky" (a request may fail), "down" or "up"

vars == <<pois, isLoading, isOnline, syncInProgress, storedPois, storedQueue,
          remote, nextServerId, nextUUID, clock, tasks, last, cleared, nCalls, nOverlaps, faults, link>>

----------------------------------------------------------------------------
\* Data.  A string is the tuple of its characters.

EmptyString == <<>>
UnnamedPOI == <<"U", "n", "n", "a", "m", "e", "d", " ", "P", "O", "I">>

\* What the user can type into the name field of the add form.
NameInputs == {<<"C">>, <<"P">>, <<>>, <<" ">>}

\* The drafts (NewPOI) the add form can hold.
DraftInputs == {[name |-> n, description |-> EmptyString, latitude |-> 1, longitude |-> 2] : n \in NameInputs}

\* The partial updates a caller passes to updatePOI.
UpdateInputs == {[name |-> <<"R">>]}

\* Ids: a client-generated UUID, or the string form of a server-assigned id.
\* (UUIDRepeating is a generator that gives the same value every time.)
UUIDRepeating(n) == <<"uuid", 1>>
UUID(n) == <<"uuid", n>>
ServerId(n) == <<"srv", n>>
IsTemporary(id) == id[1] = "uuid"
NoId == <<"none", 0>>

DraftFields == {"name", "description", "latitude", "longitude"}
DateFields == {"createdAt", "updatedAt"}
NoFields == [name |-> EmptyString, description |-> EmptyString, latitude |-> 0, longitude |-> 0]

\* Times.  A Date object and the ISO string JSON.stringify makes of it are
\* different values; a field that is undefined is NoDate.  The model keeps
\* one instant of the clock: what the conversions change is the kind.
Date(n) == <<"date", n>>
Iso(n) == <<"iso", n>>
NoDate == <<"none", 0>>
IsDate(x) == x[1] = "date"
Now == 0

\* new Date(x || Date.now()) and  x ? new Date(x) : new Date()
NewDate(x) == IF x = NoDate THEN Date(Now) ELSE Date(x[2])

\* What JSON.parse gives back of what JSON.stringify wrote: a Date has become
\* its ISO string, an undefined field stays away.
Stringify(d) ==
    [f \in DOMAIN d |-> IF f \in DateFields /\ IsDate(d[f]) THEN Iso(d[f][2]) ELSE d[f]]

\* An AsyncStorage item: absent (getItem gives null) or a stored JSON array.
NoItem == [present |-> FALSE, value |-> <<>>]
Item(v) == [present |-> TRUE, value |-> v]

\* String.prototype.trim on a tuple of characters.
RECURSIVE TrimStart(_)
TrimStart(s) ==
    IF s # <<>> /\ Head(s) = " " THEN TrimStart(Tail(s)) ELSE s

RECURSIVE TrimEnd(_)
TrimEnd(s) ==
    IF s # <<>> /\ s[Len(s)] = " " THEN TrimEnd(SubSeq(s, 1, Len(s) - 1)) ELSE s

\* A check of the name as typed.
Untrimmed(s) == s

Trim(s) == TrimEnd(TrimStart(s))

\* JavaScript's  x || d  on strings and on numbers.
OrString(x, d) == IF x = EmptyString THEN d ELSE x
OrNumber(x, d) == IF x = 0 THEN d ELSE x

\* The POI the client builds from a record of the remote service.
FormatPOI(r) ==
    [id |-> r.id,
     name |-> OrString(r.name, UnnamedPOI),
     description |-> OrString(r.description, EmptyString),
     latitude |-> OrNumber(r.latitude, 0),
     longitude |-> OrNumber(r.longitude, 0),
     createdAt |-> NewDate(r.createdAt),
     updatedAt |-> r.updatedAt]

\* ensurePOI of the hook, on a POI as the model holds it.
ensurePOI(p) ==
    [id |-> p.id,
     name |-> OrString(p.name, UnnamedPOI),
     description |-> OrString(p.description, EmptyString),
     latitude |-> OrNumber(p.latitude, 0),
     longitude |-> OrNumber(p.longitude, 0),
     createdAt |-> IF IsDate(p.createdAt) THEN p.createdAt ELSE NewDate(p.createdAt),
     updatedAt |-> p.updatedAt]

\* Array.prototype.map; Array.prototype.filter is SelectSeq.
Map(s, F(_)) == [k \in 1..Len(s) |-> F(s[k])]

\* { ...a, ...b } restricted to the fields of a POI.
Spread(a, b) == [f \in DOMAIN a |-> IF f \in DOMAIN b THEN b[f] ELSE a[f]]

\* JSON.stringify of a list of POIs, as JSON.parse reads it back.
StringifyAll(list) == Map(list, Stringify)

Ids(s) == {s[k].id : k \in 1..Len(s)}
Fields(p) == [f \in DraftFields |-> p[f]]
Matching(s, d) == {k \in 1..Len(s) : Fields(s[k]) = d}

NoPOI == [id |-> NoId, name |-> EmptyString, description |-> EmptyString, latitude |-> 0, longitude |-> 0, createdAt |-> NoDate, updatedAt |-> NoDate]

----------------------------------------------------------------------------
\* The remote POI service, as poiService reaches it.  A call either fails in
\* transport (net = FALSE: no connection, or the 10 s timeout) or reaches the
\* service.  Each operator gives the outcome of one call: status is "ok",
\* "network" or "notFound"; poi is the POI the call resolves to; remote and
\* nextServerId are the service's state after the call.

Outcome(status, poi, rem, nxt) == [status |-> status, poi |-> poi, remote |-> rem, nextServerId |-> nxt]
NoOutcome == [status |-> "none", poi |-> NoPOI]
Settled(o) == [status |-> o.status, poi |-> o.poi]

\* A service that stores the record under the id the client sent.
CreatedUnderClientId(payload) ==
    [id |-> payload.id,
     name |-> payload.name,
     description |-> payload.description,
     latitude |-> payload.latitude,
     longitude |-> payload.longitude,
     createdAt |-> Iso(Now),
     updatedAt |-> NoDate,
     clientId |-> payload.id]

\* The record the service stores for a POST /pois: its own id, the fields
\* sent, its own creation time; it keeps no updatedAt.  clientId is history:
\* the id field of the payload the record was made from.
Created(payload) ==
    [id |-> ServerId(nextServerId),
     name |-> payload.name,
     description |-> payload.description,
     latitude |-> payload.latitude,
     longitude |-> payload.longitude,
     createdAt |-> Iso(Now),
     updatedAt |-> NoDate,
     clientId |-> payload.id]

IndexOf(rem, id) == {k \in 1..Len(rem) : rem[k].id = id}

\* poiService.createPOI(poi)
createPOI(payload, net) ==
    IF ~net THEN Outcome("network", NoPOI, remote, nextServerId)
    ELSE Outcome("ok", FormatPOI(Created(payload)), Append(remote, Created(payload)), nextServerId + 1)

\* poiService.updatePOI(id, updates): PUT /pois/:id answers 404 for an id the
\* service does not hold, and the fallback fetch then throws on !response.ok.
updatePOI(id, updates, net) ==
    IF ~net THEN Outcome("network", NoPOI, remote, nextServerId)
    ELSE IF IndexOf(remote, id) = {} THEN Outcome("notFound", NoPOI, remote, nextServerId)
    ELSE LET k == CHOOSE k \in IndexOf(remote, id) : TRUE
             r == Spread(remote[k], [f \in DOMAIN updates \ DateFields |-> updates[f]])
         IN  Outcome("ok", FormatPOI(r), [remote EXCEPT ![k] = r], nextServerId)

\* poiService.deletePOI(id)
deletePOI(id, net) ==
    IF ~net THEN Outcome("network", NoPOI, remote, nextServerId)
    ELSE IF IndexOf(remote, id) = {} THEN Outcome("notFound", NoPOI, remote, nextServerId)
    ELSE Outcome("ok", NoPOI, SelectSeq(remote, LAMBDA r : r.id # id), nextServerId)

\* poiService.getPOIs(): the list the call resolves to.
getPOIs == Map(remote, FormatPOI)

----------------------------------------------------------------------------
\* Tasks.

NoData == [id |-> NoId]
NoQueueItem == [type |-> "NONE", id |-> NoId, data |-> NoData, timestamp |-> 0]

\* kind: the async function; pc: the await it is suspended on; id, data: the
\* arguments; list: the array the call computed from the pois it closed over;
\* res: the settled remote call; item, queue: addToSyncQueue's queueItem and
\* existingQueue; sip: the syncInProgress the call closed over; ops, i, sent:
\* processSyncQueue's operations, the loop position and (history) the calls
\* the loop has made; had: (history) how many entries of pois had the fields
\* of the draft when addPOI was called; got, unread: (history) whether
\* getPOIs resolved and whether reading the stored POIs failed; was, saved,
\* kept: (history) the pois, the stored POIs and the stored queue when the
\* call started (for loadPOIs, was is the pois of the process that ran before
\* this one); lost: (history) the queued items removeItem took away that the
\* loop had not read.
IdleTask ==
    [kind |-> "idle", pc |-> "idle", id |-> NoId, data |-> NoData, list |-> <<>>,
     res |-> NoOutcome, item |-> NoQueueItem, queue |-> NoItem,
     sip |-> FALSE, ops |-> <<>>, i |-> 0, sent |-> <<>>, had |-> 0,
     got |-> FALSE, unread |-> FALSE, was |-> <<>>, saved |-> NoItem, kept |-> NoItem, lost |-> <<>>]

NoCall ==
    [call |-> "none", id |-> NoId, fields |-> NoFields, had |-> 0, status |-> "none",
     result |-> "none", ops |-> <<>>, sent |-> <<>>, lost |-> <<>>,
     was |-> <<>>, saved |-> NoItem, kept |-> NoItem, got |-> FALSE]

TaskIds == 0..(MaxOverlaps + 1)
CallerSlots == 1..(MaxOverlaps + 1)
FreeSlots == {t \in CallerSlots : tasks[t].kind = "idle"}
NewSlot == CHOOSE t \in FreeSlots : \A u \in FreeSlots : t <= u
Quiescent == \A t \in TaskIds : tasks[t].kind = "idle"

\* A caller may start a call, MaxCalls times in all: at once when nothing is
\* in flight, and MaxOverlaps times while something is.
MayCall ==
    /\ nCalls < MaxCalls
    /\ nCalls' = nCalls + 1
    /\ FreeSlots # {}
    /\ Quiescent \/ nOverlaps < MaxOverlaps
    /\ nOverlaps' = IF Quiescent THEN nOverlaps ELSE nOverlaps + 1

----------------------------------------------------------------------------
\* The state after the hook's first render: the useState initial values, and
\* the mount effect's loadPOIs() about to call getPOIs.  The device's storage
\* is empty; the service holds one POI created earlier.

InitialRemote == <<[id |-> ServerId(0), name |-> <<"H">>, description |-> EmptyString, latitude |-> 5, longitude |-> 6, createdAt |-> Iso(0), updatedAt |-> NoDate, clientId |-> NoId]>>

Init ==
    /\ pois = <<>>
    /\ isLoading = TRUE
    /\ isOnline = TRUE
    /\ syncInProgress = FALSE
    /\ storedPois = NoItem
    /\ storedQueue = NoItem
    /\ remote = InitialRemote
    /\ nextServerId = 1
    /\ nextUUID = 0
    /\ clock = 0
    /\ tasks = [t \in TaskIds |-> IF t = 0 THEN [IdleTask EXCEPT !.kind = "loadPOIs", !.pc = "getPOIs"] ELSE IdleTask]
    /\ last = NoCall
    /\ cleared = 0
    /\ nCalls = 0
    /\ nOverlaps = 0
    /\ faults = 0
    /\ link = "flaky"

\* The same start on a device whose storage will fail.
InitFaulty ==
    /\ pois = <<>>
    /\ isLoading = TRUE
    /\ isOnline = TRUE
    /\ syncInProgress = FALSE
    /\ storedPois = NoItem
    /\ storedQueue = NoItem
    /\ remote = InitialRemote
    /\ nextServerId = 1
    /\ nextUUID = 0
    /\ clock = 0
    /\ tasks = [t \in TaskIds |-> IF t = 0 THEN [IdleTask EXCEPT !.kind = "loadPOIs", !.pc = "getPOIs"] ELSE IdleTask]
    /\ last = NoCall
    /\ cleared = 0
    /\ nCalls = 0
    /\ nOverlaps = 0
    /\ faults = MaxFaults
    /\ link = "flaky"

\* A restart that comes up with no stored queue.
RestartWiping ==
    /\ Quiescent
    /\ nCalls < MaxCalls
    /\ nCalls' = nCalls + 1
    /\ pois' = <<>>
    /\ isLoading' = TRUE
    /\ isOnline' = TRUE
    /\ syncInProgress' = FALSE
    /\ storedQueue' = NoItem
    /\ tasks' = [t \in TaskIds |-> IF t = 0 THEN [IdleTask EXCEPT !.kind = "loadPOIs", !.pc = "getPOIs", !.was = pois, !.saved = storedPois, !.kept = storedQueue] ELSE IdleTask]
    /\ last' = NoCall
    /\ UNCHANGED <<storedPois, remote, nextServerId, nextUUID, clock, cleared, nOverlaps, faults, link>>

\* The app is closed between two calls and started again: the state of the
\* hook is that of a first render, the mount effect runs, the storage and the
\* service are as they were.
Restart ==
    /\ Quiescent
    /\ nCalls < MaxCalls
    /\ nCalls' = nCalls + 1
    /\ pois' = <<>>
    /\ isLoading' = TRUE
    /\ isOnline' = TRUE
    /\ syncInProgress' = FALSE
    /\ tasks' = [t \in TaskIds |-> IF t = 0 THEN [IdleTask EXCEPT !.kind = "loadPOIs", !.pc = "getPOIs", !.was = pois, !.saved = storedPois, !.kept = storedQueue] ELSE IdleTask]
    /\ last' = NoCall
    /\ UNCHANGED <<storedPois, storedQueue, remote, nextServerId, nextUUID, clock, cleared, nOverlaps, faults, link>>

----------------------------------------------------------------------------
\* Steps shared by the calls.

Resume(t, task) == tasks' = [tasks EXCEPT ![t] = task]

\* fetch, in the requests of poiService: whether a request gets through.
Reach == CASE link = "up" -> {TRUE} [] link = "down" -> {FALSE} [] OTHER -> BOOLEAN
Return(t, call) ==
    /\ tasks' = [tasks EXCEPT ![t] = IdleTask]
    /\ last' = [call EXCEPT !.was = tasks[t].was, !.saved = tasks[t].saved, !.kept = tasks[t].kept, !.got = tasks[t].got]

\* A storage call succeeds, or fails while the storage has failures in store.
StorageAnswers(ok) ==
    /\ ok \/ faults > 0
    /\ faults' = IF ok THEN faults ELSE faults - 1

\* AsyncStorage.setItem rejects at line 142, 176 or 202, outside the try
\* block: the call rejects before the service is called.
Rejected(task) ==
    /\ UNCHANGED tasks
    /\ last' = [NoCall EXCEPT !.call = task.kind, !.id = task.id, !.status = "storage", !.result = "thrown",
                              !.was = task.was, !.saved = task.saved, !.kept = task.kept]

\* A create, update or delete call goes out to the service and settles.
Send(o) ==
    /\ remote' = o.remote
    /\ nextServerId' = o.nextServerId

\* A catch clause that lets every error but a transport error through.
CatchesTransportOnly(status) == status = "network"

\* catch (error), lines 156, 190 and 207: the errors the clause catches.
Catches(status) == TRUE

\* The call rejects: the error reaches the caller.
Throw(t) ==
    /\ Return(t, [NoCall EXCEPT !.call = tasks[t].kind, !.id = tasks[t].id, !.status = tasks[t].res.status, !.result = "thrown"])
    /\ UNCHANGED clock

\* A queue item that is a Create whatever the call was.
QueueItemAsCreate(type, data) == [type |-> "ADD", id |-> data.id, data |-> data, timestamp |-> clock + 1]

\* addToSyncQueue, lines 117-124: the queueItem is built and getItem is called.
QueueItem(type, data) == [type |-> type, id |-> data.id, data |-> data, timestamp |-> clock + 1]

BeginAddToSyncQueue(t, type, data) ==
    /\ clock' = clock + 1
    /\ Resume(t, [tasks[t] EXCEPT !.pc = "enqueue", !.item = QueueItem(type, data), !.queue = storedQueue])
    /\ last' = NoCall

\* JSON.stringify of a queue item, line 127, as JSON.parse reads it back.
StringifyItem(queueItem) == [queueItem EXCEPT !.data = Stringify(@)]

\* A push that first drops the queued operations on the same id.
PushedCoalescing(existingQueue, queueItem) ==
    Append(SelectSeq(IF existingQueue.present THEN existingQueue.value ELSE <<>>, LAMBDA q : q.id # queueItem.id), queueItem)

\* queue.push(queueItem) on the parsed existingQueue, or on [].
Pushed(existingQueue, queueItem) ==
    Append(IF existingQueue.present THEN existingQueue.value ELSE <<>>, queueItem)

\* addToSyncQueue, lines 125-127, after which the catch block of the mutation
\* returns to the caller.
AddToSyncQueue(t) ==
    /\ tasks[t].pc = "enqueue"
    /\ storedQueue' = Item(Pushed(tasks[t].queue, StringifyItem(tasks[t].item)))
    /\ Return(t, [NoCall EXCEPT !.call = tasks[t].kind, !.id = tasks[t].id, !.status = tasks[t].res.status, !.result = "value",
                                !.fields = IF tasks[t].kind = "addPOI" THEN Fields(tasks[t].data) ELSE NoFields,
                                !.had = tasks[t].had, !.ops = <<StringifyItem(tasks[t].item)>>])
    /\ UNCHANGED <<pois, isLoading, isOnline, syncInProgress, storedPois, remote, nextServerId, nextUUID, clock, cleared, nCalls, nOverlaps, faults, link>>

----------------------------------------------------------------------------
\* addPOI

\* lines 131-142: the new POI gets a UUID, is appended to the pois of the
\* render the call was made in, and the list is set and stored.
AddPOI(poiData) ==
    /\ MayCall
    /\ \E ok \in BOOLEAN :
        /\ StorageAnswers(ok)
        /\ LET newPOI == [id |-> UUID(nextUUID + 1), name |-> poiData.name, description |-> poiData.description, latitude |-> poiData.latitude, longitude |-> poiData.longitude,
                          createdAt |-> Date(Now), updatedAt |-> Date(Now)]
               updatedPOIs == Append(pois, newPOI)
               task == [IdleTask EXCEPT !.kind = "addPOI", !.pc = "remote", !.id = newPOI.id, !.data = newPOI, !.list = updatedPOIs, !.had = Cardinality(Matching(pois, poiData)),
                                        !.was = pois, !.saved = storedPois, !.kept = storedQueue]
           IN  /\ pois' = updatedPOIs
               /\ storedPois' = IF ok THEN Item(StringifyAll(updatedPOIs)) ELSE storedPois
               /\ nextUUID' = nextUUID + 1
               /\ IF ok THEN Resume(NewSlot, task) /\ last' = NoCall ELSE Rejected(task)
    /\ UNCHANGED <<isLoading, isOnline, syncInProgress, storedQueue, remote, nextServerId, clock, cleared, link>>

\* MapScreen.handleAddPOI: a name that trims to nothing raises an alert and
\* addPOI is not called.
HandleAddPOI ==
    \E newPOI \in DraftInputs :
        IF Trim(newPOI.name) = EmptyString
        THEN /\ MayCall
             /\ last' = [NoCall EXCEPT !.call = "handleAddPOI", !.fields = Fields(newPOI), !.result = "alert",
                                       !.was = pois, !.saved = storedPois, !.kept = storedQueue]
             /\ UNCHANGED <<pois, isLoading, isOnline, syncInProgress, storedPois, storedQueue, remote, nextServerId, nextUUID, clock, tasks, cleared, faults, link>>
        ELSE AddPOI(newPOI)

\* line 146: poiService.createPOI(newPOI) settles.
AddPOIRemote(t) ==
    /\ tasks[t].kind = "addPOI"
    /\ tasks[t].pc = "remote"
    /\ \E net \in Reach :
        LET o == createPOI(tasks[t].data, net)
        IN  /\ Send(o)
            /\ Resume(t, [tasks[t] EXCEPT !.pc = "settled", !.res = Settled(o)])
    /\ last' = NoCall
    /\ UNCHANGED <<pois, isLoading, isOnline, syncInProgress, storedPois, storedQueue, nextUUID, clock, cleared, nCalls, nOverlaps, faults, link>>

\* A reconciliation that adds the saved POI beside the entry it stands for.
ReconciledBeside(updatedPOIs, id, savedPOI) == Append(updatedPOIs, savedPOI)

\* lines 149-151: the entry with the new POI's id becomes the saved POI.
Reconciled(updatedPOIs, id, savedPOI) ==
    Map(updatedPOIs, LAMBDA poi : IF poi.id = id THEN savedPOI ELSE poi)

\* lines 147-160: on success the list computed at the start of the call, with
\* the saved POI in place, is set and stored; on failure the POI is queued.
AddPOISettle(t) ==
    /\ tasks[t].kind = "addPOI"
    /\ tasks[t].pc = "settled"
    /\ IF tasks[t].res.status = "ok"
       THEN \E ok \in BOOLEAN :
            LET updatedList == Reconciled(tasks[t].list, tasks[t].id, tasks[t].res.poi)
            IN  /\ StorageAnswers(ok)
                /\ pois' = updatedList
                /\ storedPois' = IF ok THEN Item(StringifyAll(updatedList)) ELSE storedPois
                /\ IF ok
                   THEN /\ Return(t, [NoCall EXCEPT !.call = "addPOI", !.id = tasks[t].id, !.fields = Fields(tasks[t].data), !.had = tasks[t].had, !.status = "ok", !.result = "value"])
                        /\ UNCHANGED clock
                   ELSE IF Catches("storage") THEN BeginAddToSyncQueue(t, "ADD", tasks[t].data) ELSE Throw(t)
       ELSE /\ IF Catches(tasks[t].res.status) THEN BeginAddToSyncQueue(t, "ADD", tasks[t].data) ELSE Throw(t)
            /\ UNCHANGED <<pois, storedPois, faults>>
    /\ UNCHANGED <<isLoading, isOnline, syncInProgress, storedQueue, remote, nextServerId, nextUUID, cleared, nCalls, nOverlaps, link>>

----------------------------------------------------------------------------
\* updatePOI and deletePOI

\* The ids a caller can pass: those of the snapshot it renders, and the id of
\* the POI the service held before the session.
KnownIds == Ids(pois) \cup Ids(InitialRemote)

\* An update that leaves the list as it is until the service has answered.
UpdatedLater(list, id, updatedPOI) == list

\* lines 172-174: the entry with this id gets the updated fields.
Updated(list, id, updatedPOI) ==
    Map(list, LAMBDA poi : IF poi.id = id THEN Spread(poi, updatedPOI) ELSE poi)

\* lines 164-176
UpdatePOI(id, updates) ==
    /\ MayCall
    /\ \E ok \in BOOLEAN :
        /\ StorageAnswers(ok)
        /\ LET updatedPOI == [name |-> updates.name, id |-> id, updatedAt |-> Date(Now)]
               updatedPOIs == Updated(pois, id, updatedPOI)
               task == [IdleTask EXCEPT !.kind = "updatePOI", !.pc = "remote", !.id = id, !.data = updatedPOI, !.list = updatedPOIs,
                                        !.was = pois, !.saved = storedPois, !.kept = storedQueue]
           IN  /\ pois' = updatedPOIs
               /\ storedPois' = IF ok THEN Item(StringifyAll(updatedPOIs)) ELSE storedPois
               /\ IF ok THEN Resume(NewSlot, task) /\ last' = NoCall ELSE Rejected(task)
    /\ UNCHANGED <<isLoading, isOnline, syncInProgress, storedQueue, remote, nextServerId, nextUUID, clock, cleared, link>>

\* line 180: poiService.updatePOI(id, updatedPOI) settles.
UpdatePOIRemote(t) ==
    /\ tasks[t].kind = "updatePOI"
    /\ tasks[t].pc = "remote"
    /\ \E net \in Reach :
        LET o == updatePOI(tasks[t].id, tasks[t].data, net)
        IN  /\ Send(o)
            /\ Resume(t, [tasks[t] EXCEPT !.pc = "settled", !.res = Settled(o)])
    /\ last' = NoCall
    /\ UNCHANGED <<pois, isLoading, isOnline, syncInProgress, storedPois, storedQueue, nextUUID, clock, cleared, nCalls, nOverlaps, faults, link>>

\* lines 181-194
UpdatePOISettle(t) ==
    /\ tasks[t].kind = "updatePOI"
    /\ tasks[t].pc = "settled"
    /\ IF tasks[t].res.status = "ok"
       THEN \E ok \in BOOLEAN :
            LET finalUpdatedList == Reconciled(tasks[t].list, tasks[t].id, tasks[t].res.poi)
            IN  /\ StorageAnswers(ok)
                /\ pois' = finalUpdatedList
                /\ storedPois' = IF ok THEN Item(StringifyAll(finalUpdatedList)) ELSE storedPois
                /\ IF ok
                   THEN /\ Return(t, [NoCall EXCEPT !.call = "updatePOI", !.id = tasks[t].id, !.status = "ok", !.result = "value"])
                        /\ UNCHANGED clock
                   ELSE IF Catches("storage") THEN BeginAddToSyncQueue(t, "UPDATE", [f \in DOMAIN tasks[t].data \ DateFields |-> tasks[t].data[f]]) ELSE Throw(t)
       ELSE /\ IF Catches(tasks[t].res.status) THEN BeginAddToSyncQueue(t, "UPDATE", [f \in DOMAIN tasks[t].data \ DateFields |-> tasks[t].data[f]]) ELSE Throw(t)
            /\ UNCHANGED <<pois, storedPois, faults>>
    /\ UNCHANGED <<isLoading, isOnline, syncInProgress, storedQueue, remote, nextServerId, nextUUID, cleared, nCalls, nOverlaps, link>>

\* lines 198-202
DeletePOI(id) ==
    /\ MayCall
    /\ \E ok \in BOOLEAN :
        /\ StorageAnswers(ok)
        /\ LET updatedPOIs == SelectSeq(pois, LAMBDA poi : poi.id # id)
               task == [IdleTask EXCEPT !.kind = "deletePOI", !.pc = "remote", !.id = id, !.data = [id |-> id], !.list = updatedPOIs,
                                        !.was = pois, !.saved = storedPois, !.kept = storedQueue]
           IN  /\ pois' = updatedPOIs
               /\ storedPois' = IF ok THEN Item(StringifyAll(updatedPOIs)) ELSE storedPois
               /\ IF ok THEN Resume(NewSlot, task) /\ last' = NoCall ELSE Rejected(task)
    /\ UNCHANGED <<isLoading, isOnline, syncInProgress, storedQueue, remote, nextServerId, nextUUID, clock, cleared, link>>

\* line 206: poiService.deletePOI(id) settles.
DeletePOIRemote(t) ==
    /\ tasks[t].kind = "deletePOI"
    /\ tasks[t].pc = "remote"
    /\ \E net \in Reach :
        LET o == deletePOI(tasks[t].id, net)
        IN  /\ Send(o)
            /\ Resume(t, [tasks[t] EXCEPT !.pc = "settled", !.res = Settled(o)])
    /\ last' = NoCall
    /\ UNCHANGED <<pois, isLoading, isOnline, syncInProgress, storedPois, storedQueue, nextUUID, clock, cleared, nCalls, nOverlaps, faults, link>>

\* lines 204-211
DeletePOISettle(t) ==
    /\ tasks[t].kind = "deletePOI"
    /\ tasks[t].pc = "settled"
    /\ IF tasks[t].res.status = "ok"
       THEN /\ Return(t, [NoCall EXCEPT !.call = "deletePOI", !.id = tasks[t].id, !.status = "ok", !.result = "value"])
            /\ UNCHANGED clock
       ELSE IF Catches(tasks[t].res.status) THEN BeginAddToSyncQueue(t, "DELETE", tasks[t].data) ELSE Throw(t)
    /\ UNCHANGED <<pois, storedPois, isLoading, isOnline, syncInProgress, storedQueue, remote, nextServerId, nextUUID, cleared, nCalls, nOverlaps, faults, link>>

----------------------------------------------------------------------------
\* processSyncQueue, run to its end by the call that started it: loadPOIs
\* (which does not await it) or syncWithServer (which does).

\* A way out that leaves the flag as it is.
EndProcessSyncQueueHolding(t) ==
    /\ syncInProgress' = syncInProgress
    /\ isLoading' = IF tasks[t].kind = "syncWithServer" THEN FALSE ELSE isLoading
    /\ Return(t, [NoCall EXCEPT !.call = IF tasks[t].kind = "syncWithServer" THEN "syncWithServer" ELSE "processSyncQueue",
                                !.result = IF tasks[t].kind = "syncWithServer" THEN "true" ELSE "none",
                                !.status = tasks[t].res.status, !.ops = tasks[t].ops, !.sent = tasks[t].sent, !.lost = tasks[t].lost])

\* The finally blocks on the way out (lines 110-112, then 229-231 and the
\* return true of syncWithServer), and the call's return.
EndProcessSyncQueue(t) ==
    /\ syncInProgress' = FALSE
    /\ isLoading' = IF tasks[t].kind = "syncWithServer" THEN FALSE ELSE isLoading
    /\ Return(t, [NoCall EXCEPT !.call = IF tasks[t].kind = "syncWithServer" THEN "syncWithServer" ELSE "processSyncQueue",
                                !.result = IF tasks[t].kind = "syncWithServer" THEN "true" ELSE "none",
                                !.status = tasks[t].res.status, !.ops = tasks[t].ops, !.sent = tasks[t].sent, !.lost = tasks[t].lost])

\* lines 73-77: the guard reads the syncInProgress of the render the callback
\* was made in; past it the flag is set and the queue item is read.  The
\* caller has just set isLoading (lines 62 and 229-231 run when it returns).
BeginProcessSyncQueue(t) ==
    IF tasks[t].sip
    THEN /\ isLoading' = FALSE
         /\ Return(t, [NoCall EXCEPT !.call = tasks[t].kind, !.result = IF tasks[t].kind = "syncWithServer" THEN "true" ELSE "none"])
         /\ UNCHANGED syncInProgress
    ELSE /\ syncInProgress' = TRUE
         /\ isLoading' = IF tasks[t].kind = "loadPOIs" THEN FALSE ELSE isLoading
         /\ Resume(t, [tasks[t] EXCEPT !.pc = "replay", !.queue = storedQueue, !.res = NoOutcome])
         /\ last' = NoCall

\* A processSyncQueue that, finding nothing queued, installs the remote list.
ProcessSyncQueueReadRefreshing(t) ==
    /\ tasks[t].pc = "replay"
    /\ IF ~tasks[t].queue.present \/ Len(tasks[t].queue.value) = 0
       THEN /\ EndProcessSyncQueue(t)
            /\ pois' = getPOIs
            /\ storedPois' = Item(StringifyAll(getPOIs))
       ELSE /\ Resume(t, [tasks[t] EXCEPT !.pc = "dispatch", !.ops = tasks[t].queue.value, !.i = 1])
            /\ last' = NoCall
            /\ UNCHANGED <<isLoading, syncInProgress, pois, storedPois>>
    /\ UNCHANGED <<isOnline, storedQueue, remote, nextServerId, nextUUID, clock, cleared, nCalls, nOverlaps, faults, link>>

\* lines 78-83: nothing stored, or an empty array: return.
ProcessSyncQueueRead(t) ==
    /\ tasks[t].pc = "replay"
    /\ IF ~tasks[t].queue.present \/ Len(tasks[t].queue.value) = 0
       THEN EndProcessSyncQueue(t)
       ELSE /\ Resume(t, [tasks[t] EXCEPT !.pc = "dispatch", !.ops = tasks[t].queue.value, !.i = 1])
            /\ last' = NoCall
            /\ UNCHANGED <<isLoading, syncInProgress>>
    /\ UNCHANGED <<pois, isOnline, storedPois, storedQueue, remote, nextServerId, nextUUID, clock, cleared, nCalls, nOverlaps, faults, link>>

\* lines 87-97: the remote call of one operation.
Dispatch(op, net) ==
    CASE op.type = "ADD" -> createPOI(op.data, net)
      [] op.type = "UPDATE" -> updatePOI(op.data.id, op.data, net)
      [] op.type = "DELETE" -> deletePOI(op.id, net)

\* lines 85-97: the loop's next operation goes out and settles.
ProcessSyncQueueDispatch(t) ==
    /\ tasks[t].pc = "dispatch"
    /\ \E net \in Reach :
        LET op == tasks[t].ops[tasks[t].i]
            o == Dispatch(op, net)
        IN  /\ Send(o)
            /\ Resume(t, [tasks[t] EXCEPT !.pc = "dispatched", !.res = Settled(o),
                                          !.sent = Append(@, [timestamp |-> op.timestamp, status |-> o.status])])
    /\ last' = NoCall
    /\ UNCHANGED <<pois, isLoading, isOnline, syncInProgress, storedPois, storedQueue, nextUUID, clock, cleared, nCalls, nOverlaps, faults, link>>

\* A loop that logs a failed call and goes on to the next operation.
GoesOnRegardless(status) == TRUE

\* lines 98-102: whether the loop goes on after a call settled with this status.
GoesOn(status) == status = "ok"

\* lines 98-106: a failed call is rethrown and ends the function; after the
\* last operation the queue item is removed.
ProcessSyncQueueNext(t) ==
    /\ tasks[t].pc = "dispatched"
    /\ IF ~GoesOn(tasks[t].res.status)
       THEN /\ EndProcessSyncQueue(t)
            /\ UNCHANGED <<storedQueue, cleared>>
       ELSE IF tasks[t].i < Len(tasks[t].ops)
       THEN /\ Resume(t, [tasks[t] EXCEPT !.pc = "dispatch", !.i = @ + 1])
            /\ last' = NoCall
            /\ UNCHANGED <<isLoading, syncInProgress, storedQueue, cleared>>
       ELSE /\ storedQueue' = NoItem
            /\ cleared' = tasks[t].ops[Len(tasks[t].ops)].timestamp
            /\ Resume(t, [tasks[t] EXCEPT !.pc = "removed",
                                          !.lost = SelectSeq(IF storedQueue.present THEN storedQueue.value ELSE <<>>,
                                                             LAMBDA q : \A k \in 1..Len(tasks[t].ops) : tasks[t].ops[k].timestamp # q.timestamp)])
            /\ last' = NoCall
            /\ UNCHANGED <<isLoading, syncInProgress>>
    /\ UNCHANGED <<pois, isOnline, storedPois, remote, nextServerId, nextUUID, clock, nCalls, nOverlaps, faults, link>>

\* lines 107-112
ProcessSyncQueueDone(t) ==
    /\ tasks[t].pc = "removed"
    /\ EndProcessSyncQueue(t)
    /\ UNCHANGED <<pois, isOnline, storedPois, storedQueue, remote, nextServerId, nextUUID, clock, cleared, nCalls, nOverlaps, faults, link>>

----------------------------------------------------------------------------
\* The mount effect: loadPOIs

\* line 34: getPOIs settles.
LoadPOIsFetch(t) ==
    /\ tasks[t].kind = "loadPOIs"
    /\ tasks[t].pc = "getPOIs"
    /\ \E net \in Reach :
        Resume(t, [tasks[t] EXCEPT !.pc = IF net THEN "fetched" ELSE "failed", !.list = IF net THEN getPOIs ELSE <<>>, !.got = net])
    /\ last' = NoCall
    /\ UNCHANGED <<pois, isLoading, isOnline, syncInProgress, storedPois, storedQueue, remote, nextServerId, nextUUID, clock, cleared, nCalls, nOverlaps, faults, link>>

\* lines 35-37 after a list: when setItem rejects, the catch block takes over
\* as if getPOIs had failed.  Lines 42-59 after a failure: the stored POIs
\* are read, and validated; when getItem or JSON.parse throws, the list is
\* empty.
LoadPOIsSettle(t) ==
    /\ tasks[t].kind = "loadPOIs"
    /\ \E ok \in BOOLEAN :
        /\ StorageAnswers(ok)
        /\ \/ /\ tasks[t].pc = "fetched"
              /\ LET validatedPOIs == Map(tasks[t].list, ensurePOI)
                 IN  /\ pois' = validatedPOIs
                     /\ storedPois' = IF ok THEN Item(StringifyAll(validatedPOIs)) ELSE storedPois
              /\ Resume(t, [tasks[t] EXCEPT !.pc = IF ok THEN "stored" ELSE "failed"])
           \/ /\ tasks[t].pc = "failed"
              /\ Resume(t, [tasks[t] EXCEPT !.pc = "read", !.unread = ~ok,
                                            !.list = IF ok /\ storedPois.present THEN Map(storedPois.value, ensurePOI) ELSE <<>>])
              /\ UNCHANGED <<pois, storedPois>>
    /\ last' = NoCall
    /\ UNCHANGED <<isLoading, isOnline, syncInProgress, storedQueue, remote, nextServerId, nextUUID, clock, cleared, nCalls, nOverlaps, link>>

\* line 38, or lines 47-60; then the finally block, lines 62-64.
LoadPOIsFinally(t) ==
    /\ tasks[t].kind = "loadPOIs"
    /\ \/ /\ tasks[t].pc = "stored"
          /\ isOnline' = TRUE
          /\ UNCHANGED pois
       \/ /\ tasks[t].pc = "read"
          /\ pois' = tasks[t].list
          /\ isOnline' = FALSE
    /\ BeginProcessSyncQueue(t)
    /\ UNCHANGED <<storedPois, storedQueue, remote, nextServerId, nextUUID, clock, cleared, nCalls, nOverlaps, faults, link>>

----------------------------------------------------------------------------
\* syncWithServer

\* lines 214-217: the call starts in the render its caller holds.
SyncWithServer ==
    /\ MayCall
    /\ isLoading' = TRUE
    /\ Resume(NewSlot, [IdleTask EXCEPT !.kind = "syncWithServer", !.pc = "getPOIs", !.sip = syncInProgress,
                                        !.was = pois, !.saved = storedPois, !.kept = storedQueue])
    /\ last' = NoCall
    /\ UNCHANGED <<pois, isOnline, syncInProgress, storedPois, storedQueue, remote, nextServerId, nextUUID, clock, cleared, faults, link>>

\* A sync that takes a failed getPOIs for an empty list.
SyncWithServerFetchLenient(t) ==
    /\ tasks[t].kind = "syncWithServer"
    /\ tasks[t].pc = "getPOIs"
    /\ \E net \in Reach :
        Resume(t, [tasks[t] EXCEPT !.pc = "fetched", !.list = IF net THEN getPOIs ELSE <<>>, !.got = net])
    /\ last' = NoCall
    /\ UNCHANGED <<pois, isLoading, isOnline, syncInProgress, storedPois, storedQueue, remote, nextServerId, nextUUID, clock, cleared, nCalls, nOverlaps, faults, link>>

\* line 217: getPOIs settles.
SyncWithServerFetch(t) ==
    /\ tasks[t].kind = "syncWithServer"
    /\ tasks[t].pc = "getPOIs"
    /\ \E net \in Reach :
        Resume(t, [tasks[t] EXCEPT !.pc = IF net THEN "fetched" ELSE "failed", !.list = IF net THEN getPOIs ELSE <<>>, !.got = net])
    /\ last' = NoCall
    /\ UNCHANGED <<pois, isLoading, isOnline, syncInProgress, storedPois, storedQueue, remote, nextServerId, nextUUID, clock, cleared, nCalls, nOverlaps, faults, link>>

\* lines 218-219 after a list, where a setItem that rejects is caught as a
\* failed getPOIs is; lines 225-231 after a failure.
SyncWithServerSettle(t) ==
    /\ tasks[t].kind = "syncWithServer"
    /\ \/ /\ tasks[t].pc = "fetched"
          /\ \E ok \in BOOLEAN :
              /\ StorageAnswers(ok)
              /\ pois' = tasks[t].list
              /\ storedPois' = IF ok THEN Item(StringifyAll(tasks[t].list)) ELSE storedPois
              /\ IF ok
                 THEN /\ Resume(t, [tasks[t] EXCEPT !.pc = "stored"])
                      /\ last' = NoCall
                      /\ UNCHANGED <<isOnline, isLoading>>
                 ELSE /\ isOnline' = FALSE
                      /\ isLoading' = FALSE
                      /\ Return(t, [NoCall EXCEPT !.call = "syncWithServer", !.result = "false", !.status = "storage"])
       \/ /\ tasks[t].pc = "failed"
          /\ isOnline' = FALSE
          /\ isLoading' = FALSE
          /\ Return(t, [NoCall EXCEPT !.call = "syncWithServer", !.result = "false", !.status = "network"])
          /\ UNCHANGED <<pois, storedPois, faults>>
    /\ UNCHANGED <<syncInProgress, storedQueue, remote, nextServerId, nextUUID, clock, cleared, nCalls, nOverlaps, link>>

\* lines 220-223
SyncWithServerReplay(t) ==
    /\ tasks[t].kind = "syncWithServer"
    /\ tasks[t].pc = "stored"
    /\ isOnline' = TRUE
    /\ BeginProcessSyncQueue(t)
    /\ UNCHANGED <<pois, storedPois, storedQueue, remote, nextServerId, nextUUID, clock, cleared, nCalls, nOverlaps, faults, link>>

----------------------------------------------------------------------------
\* A caller starts a call.
Call ==
    \/ HandleAddPOI
    \/ \E id \in KnownIds, updates \in UpdateInputs : UpdatePOI(id, updates)
    \/ \E id \in KnownIds : DeletePOI(id)
    \/ SyncWithServer

\* A call in flight resumes at the await it is suspended on.
Step ==
    \E t \in TaskIds :
        \/ AddPOIRemote(t)
        \/ AddPOISettle(t)
        \/ UpdatePOIRemote(t)
        \/ UpdatePOISettle(t)
        \/ DeletePOIRemote(t)
        \/ DeletePOISettle(t)
        \/ AddToSyncQueue(t)
        \/ LoadPOIsFetch(t)
        \/ LoadPOIsSettle(t)
        \/ LoadPOIsFinally(t)
        \/ SyncWithServerFetch(t)
        \/ SyncWithServerSettle(t)
        \/ SyncWithServerReplay(t)
        \/ ProcessSyncQueueRead(t)
        \/ ProcessSyncQueueDispatch(t)
        \/ ProcessSyncQueueNext(t)
        \/ ProcessSyncQueueDone(t)

Next == Call \/ Step

\* One run of the app, under any overlap of calls.
Spec == Init /\ [][Next]_vars

\* The app over several runs, with the calls made one after another: a call
\* starts, or the app restarts, when every earlier call, and the startup
\* effect, has run to its end.
NextInTurn == (Quiescent /\ Call) \/ Restart \/ Step

SpecInTurn == Init /\ [][NextInTurn]_vars

\* Calls made one after another on a device whose storage fails.
SpecFaulty == InitFaulty /\ [][NextInTurn]_vars

\* Calls made one after another, where a call in flight is resumed in the
\* end: every awaited request and storage call settles, and the event loop
\* runs the continuation.
SpecFair == Init /\ [][NextInTurn]_vars /\ WF_vars(Step)

\* The device goes offline: no request reaches the service.
LinkDown ==
    /\ link = "flaky"
    /\ link' = "down"
    /\ UNCHANGED <<pois, isLoading, isOnline, syncInProgress, storedPois, storedQueue, remote, nextServerId, nextUUID, clock, tasks, last, cleared, nCalls, nOverlaps, faults>>

\* Between two calls the network comes up and stays up: from here on every
\* request reaches the service.
LinkUp ==
    /\ link # "up"
    /\ Quiescent
    /\ link' = "up"
    /\ UNCHANGED <<pois, isLoading, isOnline, syncInProgress, storedPois, storedQueue, remote, nextServerId, nextUUID, clock, tasks, last, cleared, nCalls, nOverlaps, faults>>

\* MapScreen.handleSync: with the network up and operations still queued,
\* the user syncs again, as often as it takes (while the service has ids to
\* give out).
Retry ==
    /\ link = "up"
    /\ Quiescent
    /\ Len(IF storedQueue.present THEN storedQueue.value ELSE <<>>) > 0
    /\ nextServerId <= MaxServerId
    /\ isLoading' = TRUE
    /\ Resume(NewSlot, [IdleTask EXCEPT !.kind = "syncWithServer", !.pc = "getPOIs", !.sip = syncInProgress,
                                        !.was = pois, !.saved = storedPois, !.kept = storedQueue])
    /\ last' = NoCall
    /\ UNCHANGED <<pois, isOnline, syncInProgress, storedPois, storedQueue, remote, nextServerId, nextUUID, clock, cleared, nCalls, nOverlaps, faults, link>>

\* The calls are made offline, one after another; then the network is up.
NextDrain == (link = "down" /\ Quiescent /\ Call) \/ Step \/ LinkDown \/ LinkUp \/ Retry

\* The queue is built by calls made offline; a call in flight is resumed in
\* the end (the event loop runs every continuation), and the user keeps
\* syncing once the network is up.
SpecDrain == Init /\ [][NextDrain]_vars /\ WF_vars(Step) /\ WF_vars(Retry)

----------------------------------------------------------------------------
\* Properties.

QueueValue(item) == IF item.present THEN item.value ELSE <<>>
Stamps(q) == [k \in 1..Len(q) |-> q[k].timestamp]
Mutations == {"addPOI", "updatePOI", "deletePOI"}
Replays == {"syncWithServer", "processSyncQueue"}
TypeOf(call) == CASE call = "addPOI" -> "ADD" [] call = "updatePOI" -> "UPDATE" [] call = "deletePOI" -> "DELETE"
AllOk(sent) == \A k \in 1..Len(sent) : sent[k].status = "ok"
Draining(t) == tasks[t].pc \in {"dispatch", "dispatched", "removed"}
PendingCreate(id) == \E k \in 1..Len(QueueValue(storedQueue)) : storedQueue.value[k].type = "ADD" /\ storedQueue.value[k].id = id

\* C1: when addPOI(d) returns, called with no entry of the snapshot having d's
\* name, description, latitude and longitude, exactly one entry of the
\* snapshot has them, whether the remote create succeeded or failed.
C1_AddLeavesOneMatch ==
    (last.call = "addPOI" /\ last.had = 0) => Cardinality(Matching(pois, last.fields)) = 1

C1_Witness ==
    /\ last.call = "addPOI"
    /\ last.had = 0
    /\ last.status = "ok"
    /\ Len(pois) > 1

\* C2: with calls made one after another, the queue holds one entry for each
\* mutation that failed since the queue was last removed, in call order, also
\* when several target the same id; and when a replay in which every
\* operation succeeded returns, the queue is empty.
C2_QueueHoldsEveryFailedCall ==
    /\ Quiescent => Stamps(QueueValue(storedQueue)) = [k \in 1..(clock - cleared) |-> cleared + k]
    /\ (last.call \in Replays /\ last.sent # <<>> /\ AllOk(last.sent)) => Len(QueueValue(storedQueue)) = 0

C2_Witness ==
    /\ last.call \in Replays
    /\ Len(last.ops) >= 2
    /\ Len(last.sent) = Len(last.ops)
    /\ AllOk(last.sent)
    /\ last.ops[1].id = last.ops[2].id
    /\ Len(QueueValue(storedQueue)) = 0

\* C3: a replay sends the operations in queue order, each only after every
\* operation before it succeeded in this pass; when one fails, no later one is
\* sent and the queue still holds every operation in the original order.
C3_ReplayInOrderHaltsOnFailure ==
    /\ \A t \in TaskIds :
        /\ Len(tasks[t].sent) <= Len(tasks[t].ops)
        /\ \A k \in 1..Len(tasks[t].sent) :
            /\ tasks[t].sent[k].timestamp = tasks[t].ops[k].timestamp
            /\ k < Len(tasks[t].sent) => tasks[t].sent[k].status = "ok"
    /\ (last.call \in Replays /\ last.sent # <<>> /\ ~AllOk(last.sent)) =>
        /\ storedQueue = Item(last.ops)
        /\ AllOk(SubSeq(last.sent, 1, Len(last.sent) - 1))

C3_Witness ==
    /\ last.call \in Replays
    /\ Len(last.ops) = 2
    /\ last.ops[1].type = "ADD"
    /\ last.ops[2].type = "UPDATE"
    /\ last.ops[2].id = last.ops[1].id
    /\ Len(last.sent) = 1
    /\ last.sent[1].status = "network"

\* C4: when a replay in which a queued Create succeeded returns, the queue is
\* empty and the snapshot holds, in place of the entry with the temporary id,
\* an entry with the id the service returned and the same name and
\* description.
C4_ReplayReconcilesTemporaryId ==
    (last.call \in Replays /\ last.sent # <<>> /\ AllOk(last.sent) /\ Len(last.sent) = Len(last.ops)) =>
        /\ Len(QueueValue(storedQueue)) = 0
        /\ \A k \in 1..Len(last.ops) :
            last.ops[k].type = "ADD" =>
                /\ last.ops[k].id \notin Ids(pois)
                /\ \E i \in 1..Len(pois), j \in 1..Len(remote) :
                    /\ remote[j].clientId = last.ops[k].id
                    /\ pois[i].id = remote[j].id
                    /\ pois[i].name = last.ops[k].data.name
                    /\ pois[i].description = last.ops[k].data.description

\* C5: no queued Create is applied to the service twice: no two records of
\* the service were made from the same temporary id.
C5_NoCreateAppliedTwice ==
    \A i, j \in 1..Len(remote) :
        (i # j /\ IsTemporary(remote[i].clientId)) => remote[i].clientId # remote[j].clientId

\* C6: at most one replay is draining the queue at any time.
C6_SingleFlight ==
    Cardinality({t \in TaskIds : Draining(t)}) <= 1

\* C7: no remote delete call goes out, from deletePOI or from a replay, for a
\* temporary id whose Create is still pending in the queue.
C7_NoRemoteDeleteOfUnsynced ==
    \A t \in TaskIds :
        /\ ~(tasks[t].kind = "deletePOI" /\ tasks[t].pc = "settled" /\ IsTemporary(tasks[t].id) /\ PendingCreate(tasks[t].id))
        /\ ~(tasks[t].pc = "dispatched" /\ tasks[t].ops[tasks[t].i].type = "DELETE" /\ IsTemporary(tasks[t].ops[tasks[t].i].id) /\ PendingCreate(tasks[t].ops[tasks[t].i].id))

\* C8: addPOI, updatePOI and deletePOI return normally whatever the remote
\* call did; when it failed, the call's operation, of the matching type and
\* id, is the entry the call appended to the queue, and is there once.
C8_FailureIsQueuedNotRaised ==
    last.call \in Mutations =>
        /\ last.result = "value"
        /\ last.status # "ok" =>
            LET q == QueueValue(storedQueue)
            IN  /\ q # <<>>
                /\ q[Len(q)] = last.ops[1]
                /\ q[Len(q)].type = TypeOf(last.call)
                /\ q[Len(q)].id = last.id
                /\ Cardinality({k \in 1..Len(q) : q[k].timestamp = last.ops[1].timestamp}) = 1

C8_Witness ==
    /\ last.call = "deletePOI"
    /\ last.status = "notFound"
    /\ last.result = "value"
    /\ Len(QueueValue(storedQueue)) = 2

\* C9: when a replay returns, an Update or Delete the service answered with
\* not-found is no longer in the queue.
C9_NotFoundIsDropped ==
    last.call \in Replays =>
        \A k \in 1..Len(last.sent) :
            last.sent[k].status = "notFound" =>
                \A j \in 1..Len(QueueValue(storedQueue)) : storedQueue.value[j].timestamp # last.sent[k].timestamp

\* C10: a processSyncQueue that finds no queue item, or an empty one, returns
\* without a remote call and leaves the service, the queue and the snapshot,
\* in memory and stored, as they were; so does the next one.
EmptyReplayReturns ==
    \E t \in TaskIds :
        /\ tasks[t].pc = "replay"
        /\ Len(QueueValue(tasks[t].queue)) = 0
        /\ tasks'[t] # tasks[t]

C10_EmptyReplayIsNoOp ==
    [][EmptyReplayReturns =>
        /\ remote' = remote
        /\ nextServerId' = nextServerId
        /\ pois' = pois
        /\ storedPois' = storedPois
        /\ storedQueue' = storedQueue
        /\ last'.sent = <<>>
        /\ \A t \in TaskIds : ~Draining(t)']_vars

C10_Witness ==
    /\ last.call = "syncWithServer"
    /\ last.result = "true"
    /\ last.ops = <<>>
    /\ last.sent = <<>>
    /\ clock = 0
    /\ nCalls = 2
    /\ nextUUID = 0
    /\ pois = getPOIs

----------------------------------------------------------------------------
\* Properties of restart, startup and overlapping calls.

Unique(list) == \A i, j \in 1..Len(list) : i # j => list[i].id # list[j].id
StartupDone == tasks[0].kind = "loadPOIs" /\ tasks[0].pc = "replay"
Deleting(id) == \E k \in 1..Len(QueueValue(storedQueue)) : storedQueue.value[k].type = "DELETE" /\ storedQueue.value[k].id = id
Reflects(list, n) ==
    \E i \in 1..Len(list) :
        \/ list[i].id = UUID(n)
        \/ \E j \in 1..Len(remote) : remote[j].clientId = UUID(n) /\ list[i].id = remote[j].id

\* C11: a snapshot that was persisted and is loaded again by a startup that
\* finds the service unavailable is the list it was before the restart,
\* record for record and field for field.
C11_ReloadGivesTheSnapshotBack ==
    (StartupDone /\ ~tasks[0].got /\ storedPois = Item(StringifyAll(tasks[0].was))) => pois = tasks[0].was

\* C12: when startup is over, either getPOIs had succeeded, and the snapshot
\* is the remote list, is stored, and online is true; or getPOIs had failed,
\* and the snapshot is the stored one (empty when nothing is stored or the
\* stored item could not be read), and online is false.
C12_StartupEndsOneOfTwoWays ==
    StartupDone =>
        IF tasks[0].got
        THEN pois = getPOIs /\ storedPois = Item(StringifyAll(getPOIs)) /\ isOnline
        ELSE /\ ~isOnline
             /\ IF tasks[0].unread \/ ~storedPois.present THEN pois = <<>> ELSE StringifyAll(pois) = storedPois.value

\* C13: in every state, under any overlap of calls, no two entries of the
\* snapshot have the same id.
C13_UniqueIds == Unique(pois)

C13_Witness ==
    /\ nOverlaps = 1
    /\ Len(pois) >= 3
    /\ \E i, j \in 1..Len(pois) : IsTemporary(pois[i].id) /\ \E k \in 1..Len(remote) : remote[k].clientId # NoId /\ remote[k].id = pois[j].id

\* C14: after a restart the stored queue is the one the process before left,
\* until the startup's replay has read it; the operations that replay
\* dispatches are those operations, in their order.
C14_QueueSurvivesRestart ==
    tasks[0].kind = "loadPOIs" =>
        /\ ~Draining(0) => storedQueue = tasks[0].kept
        /\ Draining(0) =>
            /\ tasks[0].ops = QueueValue(tasks[0].kept)
            /\ \A k \in 1..Len(tasks[0].sent) : tasks[0].sent[k].timestamp = tasks[0].kept.value[k].timestamp

C14_Witness ==
    /\ tasks[0].kind = "loadPOIs"
    /\ tasks[0].pc = "dispatched"
    /\ Len(QueueValue(tasks[0].kept)) = 2
    /\ Len(tasks[0].sent) = 2
    /\ tasks[0].kept.value[1].type = "ADD"

\* C15: when a replay that stopped at a failing operation returns, the queue
\* is that operation followed by the operations after it.
C15_QueueKeepsOnlyUnsent ==
    (last.call \in Replays /\ last.sent # <<>> /\ ~AllOk(last.sent)) =>
        QueueValue(storedQueue) = SubSeq(last.ops, Len(last.sent), Len(last.ops))

\* C16: a replay takes out of the queue only operations it dispatched: none
\* that was appended after the replay read the queue.
C16_OnlyDispatchedLeaveQueue ==
    /\ last.lost = <<>>
    /\ \A t \in TaskIds : tasks[t].lost = <<>>

\* C17: when addPOI calls, overlapping or not, are all that was called and
\* all have returned, the snapshot, in memory and stored, has an entry for
\* each of them: under its temporary id or under the id the service gave it.
C17_BothCallsTakeEffect ==
    (Quiescent /\ nCalls = nextUUID) =>
        \A n \in 1..nextUUID : Reflects(pois, n) /\ Reflects(QueueValue(storedPois), n)

\* C18: when every call has returned and no replay has removed the queue,
\* the queue holds every operation a failed call stamped.
C18_BothAppendsKept ==
    (Quiescent /\ cleared = 0) =>
        \A s \in 1..clock : \E k \in 1..Len(QueueValue(storedQueue)) : storedQueue.value[k].timestamp = s

\* C19: between calls, a POI whose Create is pending in the queue, and for
\* which no deletePOI was called, is in the snapshot under its temporary id.
C19_PendingCreateStaysVisible ==
    Quiescent =>
        \A k \in 1..Len(QueueValue(storedQueue)) :
            (storedQueue.value[k].type = "ADD" /\ ~Deleting(storedQueue.value[k].id)) =>
                storedQueue.value[k].id \in Ids(pois)

\* C20: when a syncWithServer whose replay drained the queue returns, the
\* snapshot, in memory and stored, is the list the service holds after the
\* replay, and online is true.
C20_RefreshFollowsDrain ==
    (last.call = "syncWithServer" /\ last.sent # <<>> /\ AllOk(last.sent) /\ Len(last.sent) = Len(last.ops)) =>
        /\ pois = getPOIs
        /\ storedPois = Item(StringifyAll(getPOIs))
        /\ isOnline

\* C21: when a syncWithServer whose replay stopped at a failed operation
\* returns, online is false and the call has not answered true (the caller,
\* MapScreen.handleSync, reports 'Sync Complete' on true).
C21_HaltedReplayEndsOffline ==
    (last.call = "syncWithServer" /\ last.sent # <<>> /\ ~AllOk(last.sent)) =>
        /\ ~isOnline
        /\ last.result # "true"

\* C22: when an addPOI whose remote create succeeded returns, no entry of the
\* snapshot has the temporary id, exactly one has the id the service gave,
\* that entry is where the temporary one was (after the entries the snapshot
\* had at the call, which are as they were), the snapshot is as long as it
\* was with the temporary entry, and the queue is what it was at the call.
C22_ReconciledInPlace ==
    (last.call = "addPOI" /\ last.status = "ok") =>
        /\ last.id \notin Ids(pois)
        /\ Len(pois) = Len(last.was) + 1
        /\ SubSeq(pois, 1, Len(last.was)) = last.was
        /\ \E j \in 1..Len(remote) :
            /\ remote[j].clientId = last.id
            /\ pois[Len(pois)].id = remote[j].id
            /\ Cardinality({k \in 1..Len(pois) : pois[k].id = remote[j].id}) = 1
        /\ last.ops = <<>>
        /\ storedQueue = last.kept

C22_Witness ==
    /\ last.call = "addPOI"
    /\ last.status = "ok"
    /\ Len(last.was) >= 1
    /\ Len(QueueValue(last.kept)) >= 1

\* The list a mutation computed has the optimistic change, against the
\* snapshot the call started from.
Applied(t) ==
    LET was == tasks[t].was
        list == tasks[t].list
        id == tasks[t].id
    IN  CASE tasks[t].kind = "addPOI" ->
                 /\ Len(list) = Len(was) + 1
                 /\ SubSeq(list, 1, Len(was)) = was
                 /\ list[Len(list)] = tasks[t].data
          [] tasks[t].kind = "updatePOI" ->
                 /\ Len(list) = Len(was)
                 /\ \A k \in 1..Len(was) :
                        IF was[k].id = id
                        THEN list[k].id = id /\ list[k].name = tasks[t].data.name /\ list[k].updatedAt = tasks[t].data.updatedAt
                        ELSE list[k] = was[k]
          [] tasks[t].kind = "deletePOI" ->
                 /\ id \notin Ids(list)
                 /\ list = SelectSeq(was, LAMBDA poi : poi.id # id)

\* C23: whenever addPOI, updatePOI or deletePOI is about to make its remote
\* call, the snapshot in memory already has the optimistic change and the
\* stored snapshot is that list; for addPOI, the service holds no record made
\* from the new POI yet.
C23_LocalBeforeRemote ==
    \A t \in TaskIds :
        (tasks[t].kind \in Mutations /\ tasks[t].pc = "remote") =>
            /\ Applied(t)
            /\ pois = tasks[t].list
            /\ storedPois = Item(StringifyAll(tasks[t].list))
            /\ tasks[t].kind = "addPOI" => \A j \in 1..Len(remote) : remote[j].clientId # tasks[t].id

C23_Witness ==
    \E t \in TaskIds :
        /\ tasks[t].kind = "updatePOI"
        /\ tasks[t].pc = "remote"
        /\ \E k \in 1..Len(tasks[t].was) : tasks[t].was[k].id = tasks[t].id /\ tasks[t].was[k].name # tasks[t].data.name

\* C24: a mutation during which the storage failed to save the snapshot
\* still returns to its caller with a value, having made its remote call
\* (which the service answered, or which failed and was queued), and the
\* snapshot in memory has its change.
C24_StoreFailureDoesNotHalt ==
    last.call \in Mutations =>
        /\ last.result = "value"
        /\ last.status \in {"ok", "network", "notFound"}
        /\ last.call = "addPOI" => Len(pois) = Len(last.was) + 1

\* C25: syncWithServer returns true or false, never an error; when its
\* getPOIs failed it returns false with online false, has dispatched no
\* queued operation, and the snapshot in memory, the stored snapshot and the
\* stored queue are what they were when it was called.
C25_FailedSyncChangesNothing ==
    /\ last.call = "syncWithServer" => last.result \in {"true", "false"}
    /\ (last.call = "syncWithServer" /\ ~last.got) =>
        /\ last.result = "false"
        /\ ~isOnline
        /\ last.ops = <<>>
        /\ last.sent = <<>>
        /\ pois = last.was
        /\ storedPois = last.saved
        /\ storedQueue = last.kept

C25_Witness ==
    /\ last.call = "syncWithServer"
    /\ ~last.got
    /\ Len(pois) >= 1
    /\ Len(QueueValue(storedQueue)) >= 1

OnlySpaces(s) == \A k \in 1..Len(s) : s[k] = " "

\* C26: an add whose name is empty or only spaces ends in an alert with the
\* snapshot in memory, the stored snapshot and the queue as they were and no
\* call in flight; no addPOI runs or has returned with such a name, and the
\* service holds no record created from one.
C26_BlankNameIsRejected ==
    /\ last.call = "handleAddPOI" =>
        /\ OnlySpaces(last.fields.name)
        /\ pois = last.was
        /\ storedPois = last.saved
        /\ storedQueue = last.kept
        /\ Quiescent
    /\ last.call = "addPOI" => ~OnlySpaces(last.fields.name)
    /\ \A t \in TaskIds : tasks[t].kind = "addPOI" => ~OnlySpaces(tasks[t].data.name)
    /\ \A j \in 1..Len(remote) : remote[j].clientId # NoId => ~OnlySpaces(remote[j].name)

C26_Witness ==
    /\ last.call = "handleAddPOI"
    /\ last.fields.name = <<" ">>
    /\ Len(pois) >= 1
    /\ Len(QueueValue(storedQueue)) >= 1

\* C29: whenever no call is in flight, after calls that may have overlapped
\* and with every storage write having succeeded, the stored snapshot is the
\* snapshot in memory (as JSON.stringify writes it; nothing stored counts as
\* the empty list).
C29_StoredIsInMemory ==
    Quiescent => QueueValue(storedPois) = StringifyAll(pois)

\* C30: when updatePOI or deletePOI returns, called with an id no entry of
\* the snapshot had, the snapshot in memory is the list it was at the call
\* and the stored snapshot is that list; the remote call for the id was made
\* and answered or failed; when it failed, the queue is what it was with one
\* operation more: an Update, or a Delete, for that id.
C30_UnknownIdLeavesSnapshot ==
    (last.call \in {"updatePOI", "deletePOI"} /\ last.id \notin Ids(last.was)) =>
        /\ pois = last.was
        /\ storedPois = Item(StringifyAll(last.was))
        /\ last.status \in {"ok", "network", "notFound"}
        /\ last.status = "ok" => storedQueue = last.kept
        /\ last.status # "ok" =>
            /\ Len(last.ops) = 1
            /\ last.ops[1].type = TypeOf(last.call)
            /\ last.ops[1].id = last.id
            /\ QueueValue(storedQueue) = Append(QueueValue(last.kept), last.ops[1])

C30_Witness ==
    /\ last.call = "updatePOI"
    /\ last.id \notin Ids(last.was)
    /\ Len(last.was) >= 1
    /\ last.status = "notFound"
    /\ Len(QueueValue(storedQueue)) >= 1

\* C28: a processSyncQueue that has started (it is past its guard: reading
\* the queue, dispatching, or removing the item) returns in the end, and
\* when it has returned syncInProgress is false: with nothing queued, with
\* the queue drained, or halted at an operation that failed.
C28_ReplayTerminates ==
    \A t \in TaskIds :
        (tasks[t].pc \in {"replay", "dispatch", "dispatched", "removed"}) ~>
            (tasks[t].kind = "idle" /\ last.call \in Replays /\ ~syncInProgress)

C28_Witness ==
    /\ last.call \in Replays
    /\ last.sent # <<>>
    /\ ~AllOk(last.sent)
    /\ Len(last.ops) >= 2
    /\ ~syncInProgress
    /\ Quiescent

\* C27: once the network is up for good and the user keeps syncing while
\* operations are queued, the queue is empty in the end (or the service has
\* given out its last id).
C27_EventualDrain ==
    (link = "up") ~> (Len(QueueValue(storedQueue)) = 0 \/ nextServerId > MaxServerId)

====
